---- MODULE Spec2Model ----
(***************************************************************************)
(* A model of the Scheme evaluator of Project-Scheme/scheme.py: frames,    *)
(* procedures, special forms and the tail-call trampoline.                 *)
(*                                                                         *)
(* Python values are tagged records (field t).  The heap of Frame objects  *)
(* is the sequence frames; a frame is named by its index, 0 is None and 1  *)
(* is the global frame.  Every Python function is an operator that takes   *)
(* the depth d of its own activation on the native stack and the machine   *)
(* state st, and returns a result [k, v, st]: k = "ok" with the value v,   *)
(* or k = the class of the exception raised with v its message.            *)
(***************************************************************************)
EXTENDS Integers, Sequences, FiniteSets, TLC

VARIABLES frames, last, inputs, loop, game

vars == <<frames, last, inputs, loop, game>>

scheme == <<frames, last, inputs, loop>>

(***************************************************************************)
(* Bounds of the model.                                                    *)
(***************************************************************************)
\* Python's recursion limit, counted from the top-level scheme_eval call.
RecursionLimit == 24
\* Iterations of the trampoline's while loop allowed in one evaluation.
MaxIters == 40
\* Top-level expressions read by one session.
MaxInputs == 3
\* Frames on the heap when the Frame methods are called directly.
MaxFrames == 3
\* Clauses of a generated cond form, operands of a generated and form, and
\* elements of a generated parameter list.
MaxClauses == 3
MaxOperands == 3
MaxFormals == 3
\* Largest argument of the counting loops.
MaxCount == 5
\* Largest number of bindings of a generated let form.
MaxBindings == 3

\* Project-Hog: the largest small goal played, the most dice a strategy asks
\* for, and the largest score given to is_swap.
MaxGoal == 5

MaxRolls == 2

MaxScore == 120

(***************************************************************************)
(* Values (scheme_reader.py: Pair, nil; Python int, bool, str, None).      *)
(***************************************************************************)
Num(n) == [t |-> "num", n |-> n]

Bool(b) == [t |-> "bool", b |-> b]

Sym(s) == [t |-> "sym", s |-> s]

nil == [t |-> "nil"]

None == [t |-> "None"]

Pair(a, b) == [t |-> "Pair", first |-> a, second |-> b]

PrimitiveProcedure(name, use_env) ==
  [t |-> "PrimitiveProcedure", name |-> name, use_env |-> use_env]

LambdaProcedure(formals, body, env) ==
  [t |-> "LambdaProcedure", formals |-> formals, body |-> body, env |-> env]

MuProcedure(formals, body) ==
  [t |-> "MuProcedure", formals |-> formals, body |-> body]

Evaluate(expr, env) == [t |-> "Evaluate", expr |-> expr, env |-> env]

\* The Scheme list of a sequence of values, as the reader builds it.
RECURSIVE List(_)
List(s) == IF s = <<>> THEN nil ELSE Pair(Head(s), List(Tail(s)))

scheme_symbolp(x) == x.t = "sym"

scheme_atomp(x) == x.t \in {"bool", "num", "sym", "nil"}

scheme_true(val) == ~(val.t = "bool" /\ val.b = FALSE)

scheme_false(val) == val.t = "bool" /\ val.b = FALSE

RECURSIVE scheme_listp(_)
scheme_listp(x) ==
  IF x.t = "nil" THEN TRUE
  ELSE IF x.t # "Pair" THEN FALSE
  ELSE scheme_listp(x.second)

scheme_procedurep(x) ==
  x.t \in {"PrimitiveProcedure", "LambdaProcedure", "MuProcedure"}

self_evaluating(expr) == scheme_atomp(expr) \/ expr.t = "None"

\* Pair.__len__ and nil.__len__: -1 stands for the TypeError of an improper list.
RECURSIVE len(_)
len(x) ==
  IF x.t = "nil" THEN 0
  ELSE IF x.t # "Pair" THEN -1
  ELSE LET n == len(x.second) IN IF n < 0 THEN -1 ELSE n + 1

(***************************************************************************)
(* Machine state and results.                                              *)
(***************************************************************************)
\* log: the scheme_eval calls made, in order; calls: the call frames built;
\* maxd: the deepest activation; iters: iterations of the trampoline loop;
\* applied: the argument lists given to scheme_apply, in order.
NewState(fs) ==
  [frames |-> fs, log |-> <<>>, calls |-> <<>>, maxd |-> 0, iters |-> 0,
   applied |-> <<>>]

Ok(v, st) == [k |-> "ok", v |-> v, st |-> st]

Raise(cls, msg, arg, st) == [k |-> cls, v |-> [msg |-> msg, arg |-> arg], st |-> st]

Touch(st, d) == IF d > st.maxd THEN [st EXCEPT !.maxd = d] ELSE st

TooDeep(st) == Raise("RuntimeError", "maximum recursion depth exceeded", None, st)

(***************************************************************************)
(* Environments: class Frame.                                              *)
(***************************************************************************)
Frame(parent) == [parent |-> parent, bindings |-> <<>>]

RECURSIVE Frame_lookup(_, _, _, _)
\* Faulty variant: a symbol not bound in the frame itself is not looked up in the parent.
Frame_lookup_own(self, symbol, d, st) ==
  IF d > RecursionLimit THEN TooDeep(st)
  ELSE LET s1 == Touch(st, d)
           f == s1.frames[self]
       IN IF symbol \in DOMAIN f.bindings THEN Ok(f.bindings[symbol], s1)
          ELSE Raise("SchemeError", "unknown identifier: {0}", symbol, s1)

Frame_lookup(self, symbol, d, st) ==
  IF d > RecursionLimit THEN TooDeep(st)
  ELSE LET s1 == Touch(st, d)
           f == s1.frames[self]
       IN IF symbol \in DOMAIN f.bindings THEN Ok(f.bindings[symbol], s1)
          ELSE IF f.parent # 0 THEN Frame_lookup(f.parent, symbol, d + 1, s1)
          ELSE Raise("SchemeError", "unknown identifier: {0}", symbol, s1)

\* Faulty variant: the frame's bindings are replaced by the one new binding.
Frame_define_alone(self, symbol, value, d, st) ==
  IF symbol.t = "Pair" THEN Raise("TypeError", "unhashable type: 'Pair'", symbol, st)
  ELSE Ok(None, [Touch(st, d) EXCEPT !.frames[self].bindings =
                                       [x \in {symbol} |-> value]])

\* self.bindings[symbol] = value; a Pair defines __eq__ and so is unhashable.
Frame_define(self, symbol, value, d, st) ==
  IF symbol.t = "Pair" THEN Raise("TypeError", "unhashable type: 'Pair'", symbol, st)
  ELSE LET f == st.frames[self]
           b == [x \in (DOMAIN f.bindings) \cup {symbol} |->
                   IF x = symbol THEN value ELSE f.bindings[x]]
       IN Ok(None, [Touch(st, d) EXCEPT !.frames[self].bindings = b])

RECURSIVE make_child_frame_loop(_, _, _, _, _)
make_child_frame_loop(child, formals, vals, d, st) ==
  IF formals = nil \/ vals = nil THEN Ok(child, st)
  ELSE LET r == Frame_define(child, formals.first, vals.first, d + 1, st)
       IN IF r.k # "ok" THEN r
          ELSE make_child_frame_loop(child, formals.second, vals.second, d, r.st)

\* Faulty variant: the lengths are not compared; the loop stops with the shorter list.
Frame_make_child_frame_unchecked(self, formals, vals, d, st) ==
  IF d > RecursionLimit THEN TooDeep(st)
  ELSE LET s0 == Touch(st, d)
           child == Len(s0.frames) + 1
           s1 == [s0 EXCEPT !.frames = Append(@, Frame(self))]
       IN make_child_frame_loop(child, formals, vals, d, s1)

\* The child is allocated first; when the call raises, nothing refers to it
\* and the heap is left as it was.
Frame_make_child_frame(self, formals, vals, d, st) ==
  IF d > RecursionLimit THEN TooDeep(st)
  ELSE LET s0 == Touch(st, d)
           child == Len(s0.frames) + 1
           s1 == [s0 EXCEPT !.frames = Append(@, Frame(self))]
       IN IF len(formals) < 0 \/ len(vals) < 0
          THEN Raise("TypeError", "length attempted on improper list", formals, s0)
          ELSE IF len(formals) = len(vals)
          THEN LET r == make_child_frame_loop(child, formals, vals, d, s1)
               IN IF r.k = "ok" THEN r ELSE [r EXCEPT !.st = Touch(s0, r.st.maxd)]
          ELSE Raise("SchemeError", "", None, s0)

(***************************************************************************)
(* Utility methods for checking the structure of Scheme programs.          *)
(***************************************************************************)
inf == 1000000

\* check_form: "" when EXPR is a proper list of MIN to MAX elements, else the
\* message of the SchemeError raised.
check_form(expr, min, max) ==
  IF ~scheme_listp(expr) THEN "badly formed expression: "
  ELSE IF len(expr) < min THEN "too few operands in form"
  ELSE IF len(expr) > max THEN "too many operands in form"
  ELSE ""

\* One pass of check_formals' while loop over FORMALS with the set PAR of the
\* symbols seen: "ok", or the class of the exception raised.
RECURSIVE check_formals_loop(_, _)
check_formals_loop(formals, par) ==
  IF formals = nil THEN "ok"
  ELSE IF formals.t # "Pair" THEN "AttributeError"
  ELSE LET nested == formals.first.t = "Pair"
           fs == IF nested THEN formals.first ELSE formals
       IN IF nested /\ len(fs) < 0 THEN "TypeError"
          ELSE IF nested /\ len(fs) < 3 THEN "SchemeError"
          ELSE IF fs.first.t = "Pair" THEN "TypeError"
          ELSE IF fs.first \in par THEN "SchemeError"
          ELSE IF ~scheme_symbolp(fs.first) THEN "SchemeError"
          ELSE check_formals_loop(fs.second, par \cup {fs.first})

check_formals(formals) == check_formals_loop(formals, {})

(***************************************************************************)
(* Eval/Apply.                                                             *)
(***************************************************************************)
RECURSIVE scheme_optimized_eval(_, _, _, _, _)
RECURSIVE trampoline(_, _, _)
RECURSIVE eval_all(_, _, _, _)
RECURSIVE eval_all_loop(_, _, _, _, _)
RECURSIVE Pair_map(_, _, _, _)
RECURSIVE Procedure_eval_call(_, _, _, _, _)
RECURSIVE scheme_apply(_, _, _, _, _)
RECURSIVE PrimitiveProcedure_apply(_, _, _, _, _)
RECURSIVE UserDefinedProcedure_apply(_, _, _, _, _)
RECURSIVE SPECIAL_FORMS(_, _, _, _, _)

\* scheme_eval = scheme_optimized_eval
scheme_eval(expr, env, tail, d, st) == scheme_optimized_eval(expr, env, tail, d, st)

SpecialFormNames ==
  {"and", "begin", "cond", "define", "if", "lambda", "let", "or", "quote", "mu"}

scheme_optimized_eval(expr, env, tail, d, st) ==
  IF d > RecursionLimit THEN TooDeep(st)
  ELSE LET s0 == Touch(st, d)
           s1 == [s0 EXCEPT !.log = Append(@, [expr |-> expr, env |-> env, tail |-> tail,
                                               nframes |-> Len(s0.frames)])]
       IN IF scheme_symbolp(expr) THEN Frame_lookup(env, expr, d + 1, s1)
          ELSE IF self_evaluating(expr) THEN Ok(expr, s1)
          ELSE IF tail THEN Ok(Evaluate(expr, env), s1)
          ELSE trampoline(Evaluate(expr, env), d, s1)

\* Faulty variant: what a primitive procedure returns is taken for a value and
\* returned without the loop's test.
trampoline_trusting_primitives(result, d, st) ==
  IF result.t # "Evaluate" THEN Ok(result, st)
  ELSE IF st.iters >= MaxIters THEN Raise("Diverge", "", None, st)
  ELSE LET expr == result.expr
           env == result.env
           s1 == [st EXCEPT !.iters = @ + 1]
       IN IF ~scheme_listp(expr) THEN Raise("SchemeError", "malformed list: {0}", expr, s1)
          ELSE IF scheme_symbolp(expr.first) /\ expr.first.s \in SpecialFormNames
          THEN LET r == SPECIAL_FORMS(expr.first.s, expr.second, env, d + 1, s1)
               IN IF r.k # "ok" THEN r ELSE trampoline(r.v, d, r.st)
          ELSE LET p == scheme_eval(expr.first, env, FALSE, d + 1, s1)
               IN IF p.k # "ok" THEN p
                  ELSE IF ~scheme_procedurep(p.v)
                  THEN Raise("SchemeError", "cannot call: {0}", p.v, p.st)
                  ELSE LET r == Procedure_eval_call(p.v, expr.second, env, d + 1, p.st)
                       IN IF r.k # "ok" \/ p.v.t = "PrimitiveProcedure" THEN r
                          ELSE trampoline(r.v, d, r.st)

\* The while loop of scheme_optimized_eval, running in the activation at depth d.
trampoline(result, d, st) ==
  IF result.t # "Evaluate" THEN Ok(result, st)
  ELSE IF st.iters >= MaxIters THEN Raise("Diverge", "", None, st)
  ELSE LET expr == result.expr
           env == result.env
           s1 == [st EXCEPT !.iters = @ + 1]
       IN IF ~scheme_listp(expr) THEN Raise("SchemeError", "malformed list: {0}", expr, s1)
          ELSE IF scheme_symbolp(expr.first) /\ expr.first.s \in SpecialFormNames
          THEN LET r == SPECIAL_FORMS(expr.first.s, expr.second, env, d + 1, s1)
               IN IF r.k # "ok" THEN r ELSE trampoline(r.v, d, r.st)
          ELSE LET p == scheme_eval(expr.first, env, FALSE, d + 1, s1)
               IN IF p.k # "ok" THEN p
                  ELSE IF ~scheme_procedurep(p.v)
                  THEN Raise("SchemeError", "cannot call: {0}", p.v, p.st)
                  ELSE LET r == Procedure_eval_call(p.v, expr.second, env, d + 1, p.st)
                       IN IF r.k # "ok" THEN r ELSE trampoline(r.v, d, r.st)

scheme_apply(procedure, args, env, d, st) ==
  IF ~scheme_procedurep(procedure)
  THEN Raise("SchemeError", "cannot call: {0}", procedure, Touch(st, d))
  ELSE LET s1 == [Touch(st, d) EXCEPT !.applied = Append(@, args)]
       IN IF procedure.t = "PrimitiveProcedure"
          THEN PrimitiveProcedure_apply(procedure, args, env, d + 1, s1)
          ELSE UserDefinedProcedure_apply(procedure, args, env, d + 1, s1)

eval_all_loop(first, rest, env, d, st) ==
  IF rest = nil THEN scheme_eval(first, env, TRUE, d + 1, st)
  ELSE LET r == scheme_eval(first, env, FALSE, d + 1, st)
       IN IF r.k # "ok" THEN r
          ELSE eval_all_loop(rest.first, rest.second, env, d, r.st)

eval_all(expressions, env, d, st) ==
  IF expressions = nil THEN Ok(None, Touch(st, d))
  ELSE eval_all_loop(expressions.first, expressions.second, env, d, Touch(st, d))

\* Pair.map and nil.map with fn = lambda operand: scheme_eval(operand, env):
\* the lambda runs at depth d + 1 and scheme_eval at d + 2.
Pair_map(self, env, d, st) ==
  IF self = nil THEN Ok(nil, Touch(st, d))
  ELSE LET mapped == scheme_eval(self.first, env, FALSE, d + 2, Touch(st, d))
       IN IF mapped.k # "ok" THEN mapped
          ELSE IF self.second.t \notin {"nil", "Pair"}
          THEN Raise("TypeError", "ill-formed list", self, mapped.st)
          ELSE LET more == Pair_map(self.second, env, d + 1, mapped.st)
               IN IF more.k # "ok" THEN more
                  ELSE Ok(Pair(mapped.v, more.v), more.st)

Procedure_eval_call(self, arg_exprs, env, d, st) ==
  LET args == Pair_map(arg_exprs, env, d + 1, Touch(st, d))
  IN IF args.k # "ok" THEN args
     ELSE scheme_apply(self, args.v, env, d + 1, args.st)

(***************************************************************************)
(* Procedures.                                                             *)
(***************************************************************************)
\* The Python list of a Scheme list of argument values.
RECURSIVE python_args(_)
python_args(args) ==
  IF args = nil THEN <<>> ELSE <<args.first>> \o python_args(args.second)

RECURSIVE SumNums(_)
SumNums(vals) == IF vals = <<>> THEN 0 ELSE Head(vals).n + SumNums(Tail(vals))

\* The host functions of scheme_primitives.py registered as +, - and =.
PrimitiveFn(name, vals, st) ==
  LET nums == \A i \in 1..Len(vals) : vals[i].t = "num"
      badnum == Raise("SchemeError", "operand is not a number", None, st)
      badcall == Raise("TypeError", "wrong number of arguments", None, st)
  IN CASE name = "+" -> IF nums THEN Ok(Num(SumNums(vals)), st) ELSE badnum
       [] name = "-" -> IF Len(vals) = 0 THEN badcall
                        ELSE IF ~nums THEN badnum
                        ELSE IF Len(vals) = 1 THEN Ok(Num(0 - vals[1].n), st)
                        ELSE Ok(Num(vals[1].n - SumNums(Tail(vals))), st)
       [] name = "=" -> IF Len(vals) # 2 THEN badcall
                        ELSE IF ~nums THEN badnum
                        ELSE Ok(Bool(vals[1].n = vals[2].n), st)
       [] OTHER -> badcall

\* self.fn(*python_args) for the two primitives made with use_env true whose
\* fn is a function of scheme.py: eval is scheme_eval(expr, env, tail=False)
\* and apply is scheme_apply(procedure, args, env); env is the last argument.
\* With two arguments eval gets the second as env and the frame as tail.
EnvPrimitiveFn(name, vals, env, d, st) ==
  LET badcall == Raise("TypeError", "wrong number of arguments", None, Touch(st, d))
  IN CASE name = "eval" ->
            IF Len(vals) = 1 THEN scheme_eval(vals[1], env, FALSE, d, st)
            ELSE IF Len(vals) = 2
            THEN IF scheme_symbolp(vals[1])
                 THEN Raise("AttributeError", "object has no attribute 'lookup'",
                            vals[2], Touch(st, d))
                 ELSE IF self_evaluating(vals[1]) THEN Ok(vals[1], Touch(st, d))
                 ELSE Ok(Evaluate(vals[1], vals[2]), Touch(st, d))
            ELSE badcall
       [] name = "apply" ->
            IF Len(vals) = 2 THEN scheme_apply(vals[1], vals[2], env, d, st)
            ELSE badcall
       [] OTHER -> badcall

PrimitiveProcedure_apply(self, args, env, d, st) ==
  LET r == IF self.use_env
           THEN EnvPrimitiveFn(self.name, python_args(args), env, d + 1, st)
           ELSE PrimitiveFn(self.name, python_args(args), Touch(st, d + 1))
  IN IF r.k = "TypeError" THEN Raise("SchemeError", r.v.msg, None, r.st) ELSE r

\* Faulty variant: the call frame of a lambda is made a child of the calling frame.
LambdaProcedure_make_call_frame_caller(self, args, env, d, st) ==
  Frame_make_child_frame(env, self.formals, args, d + 1, Touch(st, d))

LambdaProcedure_make_call_frame(self, args, env, d, st) ==
  Frame_make_child_frame(self.env, self.formals, args, d + 1, Touch(st, d))

\* Faulty variant: the call frame of a mu is made a child of the global frame.
MuProcedure_make_call_frame_global(self, args, env, d, st) ==
  Frame_make_child_frame(1, self.formals, args, d + 1, Touch(st, d))

MuProcedure_make_call_frame(self, args, env, d, st) ==
  Frame_make_child_frame(env, self.formals, args, d + 1, Touch(st, d))

UserDefinedProcedure_apply(self, args, env, d, st) ==
  LET new_env == IF self.t = "LambdaProcedure"
                 THEN LambdaProcedure_make_call_frame(self, args, env, d + 1, Touch(st, d))
                 ELSE MuProcedure_make_call_frame(self, args, env, d + 1, Touch(st, d))
  IN IF new_env.k # "ok" THEN new_env
     ELSE LET s1 == [new_env.st EXCEPT !.calls =
                        Append(@, [proc |-> self, env |-> env, frame |-> new_env.v])]
          IN eval_all(self.body, new_env.v, d + 1, s1)

(***************************************************************************)
(* Special forms.  Each takes the cdr of the form and the environment.     *)
(***************************************************************************)
FormError(msg, expr, st) == Raise("SchemeError", msg, expr, st)

do_lambda_form(expressions, env, d, st) ==
  LET s1 == Touch(st, d + 1)
      cf == check_form(expressions, 2, inf)
  IN IF cf # "" THEN FormError(cf, expressions, s1)
     ELSE LET formals == expressions.first
              ck == check_formals(formals)
          IN IF ck # "ok" THEN Raise(ck, "", formals, s1)
             ELSE Ok(LambdaProcedure(formals, expressions.second, env), s1)

do_mu_form(expressions, env, d, st) ==
  LET s1 == Touch(st, d + 1)
      cf == check_form(expressions, 2, inf)
  IN IF cf # "" THEN FormError(cf, expressions, s1)
     ELSE LET formals == expressions.first
              ck == check_formals(formals)
          IN IF ck # "ok" THEN Raise(ck, "", formals, s1)
             ELSE Ok(MuProcedure(formals, expressions.second), s1)

do_define_form(expressions, env, d, st) ==
  LET s1 == Touch(st, d + 1)
      cf == check_form(expressions, 2, inf)
      target == expressions.first
  IN IF cf # "" THEN FormError(cf, expressions, s1)
     ELSE IF scheme_symbolp(target)
     THEN LET cf2 == check_form(expressions, 2, 2)
          IN IF cf2 # "" THEN FormError(cf2, expressions, s1)
             ELSE LET value == scheme_eval(expressions.second.first, env, FALSE, d + 1, s1)
                  IN IF value.k # "ok" THEN value
                     ELSE Ok(target, Frame_define(env, target, value.v, d + 1, value.st).st)
     ELSE IF target.t = "Pair" /\ scheme_symbolp(target.first)
     THEN LET value == do_lambda_form(Pair(target.second, expressions.second), env, d + 1, s1)
          IN IF value.k # "ok" THEN value
             ELSE Ok(target.first, Frame_define(env, target.first, value.v, d + 1, value.st).st)
     ELSE FormError("Non-symbol: {}", IF target.t = "Pair" THEN target.first ELSE target, s1)

do_quote_form(expressions, env, d, st) ==
  LET s1 == Touch(st, d + 1)
      cf == check_form(expressions, 1, 1)
  IN IF cf # "" THEN FormError(cf, expressions, s1) ELSE Ok(expressions.first, s1)

do_begin_form(expressions, env, d, st) ==
  LET s1 == Touch(st, d + 1)
      cf == check_form(expressions, 1, inf)
  IN IF cf # "" THEN FormError(cf, expressions, s1)
     ELSE eval_all(expressions, env, d + 1, s1)

do_if_form(expressions, env, d, st) ==
  LET s1 == Touch(st, d + 1)
      cf == check_form(expressions, 2, 3)
  IN IF cf # "" THEN FormError(cf, expressions, s1)
     ELSE LET pred == scheme_eval(expressions.first, env, FALSE, d + 1, s1)
          IN IF pred.k # "ok" THEN pred
             ELSE IF scheme_true(pred.v)
             THEN scheme_eval(expressions.second.first, env, TRUE, d + 1, pred.st)
             ELSE IF len(expressions) = 3
             THEN scheme_eval(expressions.second.second.first, env, TRUE, d + 1, pred.st)
             ELSE Ok(None, pred.st)

RECURSIVE and_loop(_, _, _, _, _)
\* Faulty variant: a false operand does not stop the loop.
and_loop_all(first, rest, env, d, st) ==
  IF rest = nil THEN scheme_eval(first, env, TRUE, d + 1, st)
  ELSE LET pred == scheme_eval(first, env, FALSE, d + 1, st)
       IN IF pred.k # "ok" THEN pred
          ELSE and_loop(rest.first, rest.second, env, d, pred.st)

and_loop(first, rest, env, d, st) ==
  IF rest = nil THEN scheme_eval(first, env, TRUE, d + 1, st)
  ELSE LET pred == scheme_eval(first, env, FALSE, d + 1, st)
       IN IF pred.k # "ok" THEN pred
          ELSE IF scheme_false(pred.v) THEN Ok(Bool(FALSE), pred.st)
          ELSE and_loop(rest.first, rest.second, env, d, pred.st)

do_and_form(expressions, env, d, st) ==
  IF len(expressions) = 0 THEN Ok(Bool(TRUE), Touch(st, d + 1))
  ELSE and_loop(expressions.first, expressions.second, env, d, Touch(st, d + 1))

RECURSIVE or_loop(_, _, _, _, _)
or_loop(first, second, env, d, st) ==
  IF second = nil THEN scheme_eval(first, env, TRUE, d + 1, st)
  ELSE LET pred == scheme_eval(first, env, FALSE, d + 1, st)
       IN IF pred.k # "ok" THEN pred
          ELSE IF scheme_true(pred.v) THEN Ok(pred.v, pred.st)
          ELSE or_loop(second.first, second.second, env, d, pred.st)

do_or_form(expressions, env, d, st) ==
  IF len(expressions) = 0 THEN Ok(Bool(FALSE), Touch(st, d + 1))
  ELSE or_loop(expressions.first, expressions.second, env, d, Touch(st, d + 1))

RECURSIVE cond_loop(_, _, _, _, _, _)
\* Faulty variant: an else clause is taken wherever it stands.
cond_loop_else_anywhere(expressions, i, num_clauses, env, d, st) ==
  IF expressions = nil THEN Ok(None, st)
  ELSE LET clause == expressions.first
           cf == check_form(clause, 1, inf)
       IN IF cf # "" THEN FormError(cf, clause, st)
          ELSE IF clause.first = Sym("else")
          THEN do_begin_form(clause.second, env, d + 1, st)
          ELSE LET test == scheme_eval(clause.first, env, FALSE, d + 1, st)
               IN IF test.k # "ok" THEN test
                  ELSE IF scheme_true(test.v)
                  THEN IF clause.second = nil THEN Ok(test.v, test.st)
                       ELSE do_begin_form(clause.second, env, d + 1, test.st)
                  ELSE cond_loop(expressions.second, i + 1, num_clauses, env, d, test.st)

\* The while loop of do_cond_form at clause number i of num_clauses.
cond_loop(expressions, i, num_clauses, env, d, st) ==
  IF expressions = nil THEN Ok(None, st)
  ELSE LET clause == expressions.first
           cf == check_form(clause, 1, inf)
       IN IF cf # "" THEN FormError(cf, clause, st)
          ELSE IF clause.first = Sym("else")
          THEN IF i < num_clauses - 1 THEN FormError("else must be last", None, st)
               ELSE do_begin_form(clause.second, env, d + 1, st)
          ELSE LET test == scheme_eval(clause.first, env, FALSE, d + 1, st)
               IN IF test.k # "ok" THEN test
                  ELSE IF scheme_true(test.v)
                  THEN IF clause.second = nil THEN Ok(test.v, test.st)
                       ELSE do_begin_form(clause.second, env, d + 1, test.st)
                  ELSE cond_loop(expressions.second, i + 1, num_clauses, env, d, test.st)

do_cond_form(expressions, env, d, st) ==
  cond_loop(expressions, 0, len(expressions), env, d, Touch(st, d + 1))

RECURSIVE make_let_frame_loop(_, _, _, _, _, _)
\* Faulty variant: a value is put behind the head of values, not before it.
make_let_frame_loop_behind_head(bindings, formals, values, env, d, st) ==
  IF bindings = nil
  THEN LET ck == check_formals(formals)
       IN IF ck # "ok" THEN Raise(ck, "", formals, st)
          ELSE Frame_make_child_frame(env, formals, values, d + 1, st)
  ELSE LET start == bindings.first
           cf == check_form(start, 0, 2)
       IN IF cf # "" THEN FormError(cf, start, st)
          ELSE IF start = nil \/ start.second = nil
          THEN Raise("AttributeError", "'nil' object has no attribute 'first'", start, st)
          ELSE LET v == scheme_eval(start.second.first, env, FALSE, d + 1, st)
               IN IF v.k # "ok" THEN v
                  ELSE make_let_frame_loop(
                         bindings.second, Pair(start.first, formals),
                         IF values = nil THEN Pair(v.v, nil)
                         ELSE Pair(values.first, Pair(v.v, values.second)),
                         env, d, v.st)

\* The while loop of make_let_frame; formals and values grow by prepending.
make_let_frame_loop(bindings, formals, values, env, d, st) ==
  IF bindings = nil
  THEN LET ck == check_formals(formals)
       IN IF ck # "ok" THEN Raise(ck, "", formals, st)
          ELSE Frame_make_child_frame(env, formals, values, d + 1, st)
  ELSE LET start == bindings.first
           cf == check_form(start, 0, 2)
       IN IF cf # "" THEN FormError(cf, start, st)
          ELSE IF start = nil \/ start.second = nil
          THEN Raise("AttributeError", "'nil' object has no attribute 'first'", start, st)
          ELSE LET v == scheme_eval(start.second.first, env, FALSE, d + 1, st)
               IN IF v.k # "ok" THEN v
                  ELSE make_let_frame_loop(bindings.second, Pair(start.first, formals),
                                           Pair(v.v, values), env, d, v.st)

\* Faulty variant: the child frame is made first and each binding expression is
\* evaluated in it, after the names before it are bound (sequential binding).
RECURSIVE make_let_frame_sequential_loop(_, _, _, _)
make_let_frame_sequential_loop(bindings, child, d, st) ==
  IF bindings = nil THEN Ok(child, st)
  ELSE LET start == bindings.first
           cf == check_form(start, 0, 2)
       IN IF cf # "" THEN FormError(cf, start, st)
          ELSE IF start = nil \/ start.second = nil
          THEN Raise("AttributeError", "'nil' object has no attribute 'first'", start, st)
          ELSE LET v == scheme_eval(start.second.first, child, FALSE, d + 1, st)
               IN IF v.k # "ok" THEN v
                  ELSE make_let_frame_sequential_loop(
                         bindings.second, child, d,
                         Frame_define(child, start.first, v.v, d + 1, v.st).st)

make_let_frame_sequential(bindings, env, d, st) ==
  IF ~scheme_listp(bindings)
  THEN FormError("bad bindings list in let form", bindings, Touch(st, d + 1))
  ELSE LET child == Frame_make_child_frame(env, nil, nil, d + 1, st)
       IN make_let_frame_sequential_loop(bindings, child.v, d, child.st)

make_let_frame(bindings, env, d, st) ==
  IF ~scheme_listp(bindings)
  THEN FormError("bad bindings list in let form", bindings, Touch(st, d + 1))
  ELSE make_let_frame_loop(bindings, nil, nil, env, d, Touch(st, d + 1))

do_let_form(expressions, env, d, st) ==
  LET s1 == Touch(st, d + 1)
      cf == check_form(expressions, 2, inf)
  IN IF cf # "" THEN FormError(cf, expressions, s1)
     ELSE LET let_env == make_let_frame(expressions.first, env, d + 1, s1)
          IN IF let_env.k # "ok" THEN let_env
             ELSE eval_all(expressions.second, let_env.v, d + 1, let_env.st)

SPECIAL_FORMS(name, expressions, env, d, st) ==
  CASE name = "and" -> do_and_form(expressions, env, d, st)
    [] name = "begin" -> do_begin_form(expressions, env, d, st)
    [] name = "cond" -> do_cond_form(expressions, env, d, st)
    [] name = "define" -> do_define_form(expressions, env, d, st)
    [] name = "if" -> do_if_form(expressions, env, d, st)
    [] name = "lambda" -> do_lambda_form(expressions, env, d, st)
    [] name = "let" -> do_let_form(expressions, env, d, st)
    [] name = "or" -> do_or_form(expressions, env, d, st)
    [] name = "quote" -> do_quote_form(expressions, env, d, st)
    [] name = "mu" -> do_mu_form(expressions, env, d, st)

(***************************************************************************)
(* Programs read by the sessions, as the reader hands them to scheme_eval. *)
(***************************************************************************)
\* (if (= n 0) 0 (count (- n 1))): the recursive call is in tail position.
CountBody ==
  List(<<Sym("if"), List(<<Sym("="), Sym("n"), Num(0)>>), Num(0),
         List(<<Sym("count"), List(<<Sym("-"), Sym("n"), Num(1)>>)>>)>>)

\* (define (count n) (if (= n 0) 0 (count (- n 1))))
DefCountLambda == List(<<Sym("define"), List(<<Sym("count"), Sym("n")>>), CountBody>>)

\* (define count (mu (n) (if (= n 0) 0 (count (- n 1)))))
DefCountMu ==
  List(<<Sym("define"), Sym("count"), List(<<Sym("mu"), List(<<Sym("n")>>), CountBody>>)>>)

\* (count n)
CallCount(n) == List(<<Sym("count"), Num(n)>>)

\* (define x 1)
DefX == List(<<Sym("define"), Sym("x"), Num(1)>>)

\* (define (getx) x) and (define getx (mu () x))
DefGetxLambda == List(<<Sym("define"), List(<<Sym("getx")>>), Sym("x")>>)

DefGetxMu == List(<<Sym("define"), Sym("getx"), List(<<Sym("mu"), nil, Sym("x")>>)>>)

\* ((lambda (x) (getx)) v): getx called, in tail position, from a frame binding x to v.
CallGetxFrom(v) ==
  List(<<List(<<Sym("lambda"), List(<<Sym("x")>>), List(<<Sym("getx")>>)>>), Num(v)>>)

\* ((lambda (x) (+ (getx) 0)) v): the same call as an operand, not in tail position.
CallGetxOperandFrom(v) ==
  List(<<List(<<Sym("lambda"), List(<<Sym("x")>>),
                List(<<Sym("+"), List(<<Sym("getx")>>), Num(0)>>)>>), Num(v)>>)

\* (- ((lambda (x) (getx)) 5) ((lambda (x) (getx)) 3)): two call sites of one getx.
TwoCallSites == List(<<Sym("-"), CallGetxFrom(5), CallGetxFrom(3)>>)

\* ((lambda (g) ((lambda (k) (g)) 9)) ((lambda (k) (lambda () k)) 7)):
\* a closure made in a frame binding k to 7 and called from one binding k to 9.
ClosureFromA ==
  List(<<List(<<Sym("lambda"), List(<<Sym("g")>>),
                List(<<List(<<Sym("lambda"), List(<<Sym("k")>>), List(<<Sym("g")>>)>>),
                       Num(9)>>)>>),
         List(<<List(<<Sym("lambda"), List(<<Sym("k")>>),
                       List(<<Sym("lambda"), nil, Sym("k")>>)>>), Num(7)>>)>>)

\* (let ((x 5) (y x)) y)
LetXY ==
  List(<<Sym("let"), List(<<List(<<Sym("x"), Num(5)>>), List(<<Sym("y"), Sym("x")>>)>>),
         Sym("y")>>)

\* ((lambda (x) (let ((x 5) (y x)) y)) 7): the same let inside a call frame.
LetXYInCall == List(<<List(<<Sym("lambda"), List(<<Sym("x")>>), LetXY>>), Num(7)>>)

\* ((lambda (a) (define z a)) 1 2), ((lambda (a b) (define z a)) 1) and
\* ((mu (a) (define z a))): calls with the wrong number of arguments.
ArityBody == List(<<Sym("define"), Sym("z"), Sym("a")>>)

TooManyArgs ==
  List(<<List(<<Sym("lambda"), List(<<Sym("a")>>), ArityBody>>), Num(1), Num(2)>>)

TooFewArgs ==
  List(<<List(<<Sym("lambda"), List(<<Sym("a"), Sym("b")>>), ArityBody>>), Num(1)>>)

TooFewArgsMu == List(<<List(<<Sym("mu"), List(<<Sym("a")>>), ArityBody>>)>>)

\* ((lambda (a) (define z a)) 1): the same body called with the right number.
RightArgs == List(<<List(<<Sym("lambda"), List(<<Sym("a")>>), ArityBody>>), Num(1)>>)

\* (begin (define deep (lambda () (+ 1 (deep)))) (deep)): recursion that is
\* not in tail position and never ends.
DeepRecursion ==
  List(<<Sym("begin"),
         List(<<Sym("define"), Sym("deep"),
                List(<<Sym("lambda"), nil,
                       List(<<Sym("+"), Num(1), List(<<Sym("deep")>>)>>)>>)>>),
         List(<<Sym("deep")>>)>>)

\* Calls of the primitives apply and eval on procedures whose body ends in a
\* combination, so that scheme_apply returns an unfinished result.
\* (lambda (a) (+ a 1)) and (mu (a) (+ a 1))
Inc(kind) ==
  List(<<Sym(kind), List(<<Sym("a")>>), List(<<Sym("+"), Sym("a"), Num(1)>>)>>)

Quote(x) == List(<<Sym("quote"), x>>)

\* (apply (lambda (a) (+ a 1)) (quote (n)))
ApplyInc(kind, n) == List(<<Sym("apply"), Inc(kind), Quote(List(<<Num(n)>>))>>)

\* (define r (apply (lambda (a) (+ a 1)) (quote (1))))
DefineApplied == List(<<Sym("define"), Sym("r"), ApplyInc("lambda", 1)>>)

\* (define q (eval (quote ((lambda (a) (+ a 1)) 2))))
DefineEvaled ==
  List(<<Sym("define"), Sym("q"),
         List(<<Sym("eval"), Quote(List(<<Inc("lambda"), Num(2)>>))>>)>>)

\* ((lambda (a) (+ a 1)) (apply (lambda (a) (+ a 1)) (quote (5))))
AppliedAsArgument == List(<<Inc("lambda"), ApplyInc("lambda", 5)>>)

\* (apply + (quote (1 2)))
ApplyPrimitive ==
  List(<<Sym("apply"), Sym("+"), Quote(List(<<Num(1), Num(2)>>))>>)

\* (eval (quote (apply (lambda (a) (+ a 1)) (quote (7)))))
EvalApply == List(<<Sym("eval"), Quote(ApplyInc("lambda", 7))>>)

\* (apply apply (quote (1))) and (apply 1 (quote (1)))
ApplyApply == List(<<Sym("apply"), Sym("apply"), Quote(List(<<Num(1)>>))>>)

ApplyNumber == List(<<Sym("apply"), Num(1), Quote(List(<<Num(1)>>))>>)

\* Each form with the value it has.
ApplyValues ==
  {<<DefineApplied, Sym("r")>>, <<DefineEvaled, Sym("q")>>,
   <<AppliedAsArgument, Num(7)>>, <<ApplyInc("lambda", 1), Num(2)>>,
   <<ApplyInc("mu", 1), Num(2)>>, <<ApplyPrimitive, Num(3)>>, <<EvalApply, Num(8)>>}

ApplyForms == {av[1] : av \in ApplyValues} \cup {ApplyApply, ApplyNumber}

\* What a file run without -load holds in the model: a definition, a name
\* that is not bound, the endless recursion and a let binding without a value.
FilePrograms ==
  {DefX, Sym("y"), DeepRecursion,
   List(<<Sym("let"), List(<<List(<<Sym("x")>>)>>), Sym("x")>>)}

SessionPrograms ==
  {DefCountLambda, DefCountMu, DefX, DefGetxLambda, DefGetxMu,
   CallGetxFrom(2), CallGetxOperandFrom(2), TwoCallSites, ClosureFromA,
   LetXY, LetXYInCall, TooManyArgs, TooFewArgs, TooFewArgsMu, RightArgs,
   ApplyInc("lambda", 1)}
  \cup {CallCount(n) : n \in 0..MaxCount}

\* The expressions a loop reads: those of an interactive session when it is
\* started as run starts one, those of a file under the other flags.
ProgramsRead(interactive, startup) ==
  IF interactive /\ startup THEN SessionPrograms ELSE FilePrograms

\* The sequences over S of length at most n.
SeqsUpTo(S, n) == UNION {[1..k -> S] : k \in 0..n}

\* cond forms: every list of at most MaxClauses clauses (test body...).
CondTests == {Sym("else"), Bool(FALSE), Num(7), List(<<Sym("="), Num(4), Num(4)>>)}

CondBodies == {<<>>, <<Num(1), List(<<Sym("-"), Num(6), Num(4)>>)>>}

CondClauses == {Pair(test, List(body)) : test \in CondTests, body \in CondBodies}

CondForms == {Pair(Sym("cond"), List(cs)) : cs \in SeqsUpTo(CondClauses, MaxClauses)}

\* and forms: every list of at most MaxOperands operands.
AndOperands ==
  {Num(1), Num(3), Num(0), Bool(FALSE), List(<<Sym("-"), Num(4), Num(4)>>),
   List(<<Sym("="), Num(5), Num(6)>>)}

AndForms == {Pair(Sym("and"), List(os)) : os \in SeqsUpTo(AndOperands, MaxOperands)}

\* Special forms and combinations whose list structure is malformed, with one
\* well-formed let for comparison.
MalformedForms ==
  {List(<<Sym("let"), List(<<List(<<Sym("x")>>)>>), Sym("x")>>),
   List(<<Sym("let"), List(<<nil>>), Num(1)>>),
   List(<<Sym("let"), List(<<List(<<Sym("x"), Num(1), Num(3)>>)>>), Sym("x")>>),
   List(<<Sym("let"), List(<<List(<<Sym("x"), Num(3)>>)>>), Sym("x")>>),
   List(<<Sym("lambda"), Sym("x"), Num(1)>>),
   List(<<Sym("mu"), Sym("x"), Num(1)>>),
   List(<<Sym("lambda"), Pair(Sym("a"), Sym("b")), Num(1)>>),
   Pair(Sym("+"), Pair(Num(1), Num(3))),
   Pair(Sym("quote"), Num(1))}

\* Parameter lists handed to check_formals: symbols, a number, nested lists.
FormalsElements ==
  {Sym("a"), Sym("b"), Num(3), nil, List(<<Sym("c")>>), List(<<Sym("c"), Sym("d")>>),
   List(<<Sym("c"), Sym("d"), Sym("e")>>), List(<<Sym("c"), Sym("d"), Sym("c")>>),
   List(<<Sym("c"), Sym("d"), Num(3)>>)}

FormalsLists == {List(fs) : fs \in SeqsUpTo(FormalsElements, MaxFormals)}

\* let forms: every list of at most MaxBindings bindings whose expressions
\* have effects that show the order of evaluation: (begin (define t n) t)
\* sets t in the enclosing frame, (if #t t) reads it.
SetT(n) == List(<<Sym("begin"), List(<<Sym("define"), Sym("t"), Num(n)>>), Sym("t")>>)

ReadT == List(<<Sym("if"), Bool(TRUE), Sym("t")>>)

LetExprs == {SetT(1), SetT(2), ReadT}

LetNames == <<"a", "b", "c", "d">>

\* (let ((a e1) (b e2) ...) 0)
LetForm(exprs) ==
  List(<<Sym("let"),
         List([i \in 1..Len(exprs) |-> List(<<Sym(LetNames[i]), exprs[i]>>)]),
         Num(0)>>)

LetForms == {LetForm(exprs) : exprs \in SeqsUpTo(LetExprs, MaxBindings)}

(***************************************************************************)
(* Project-Hog/hog.py: the simulator.  A roll of the dice is the sequence  *)
(* of its outcomes; an assertion that fails gives k = "AssertionError".    *)
(***************************************************************************)
GOAL_SCORE == 100

four_sided == 1..4

six_sided == 1..6

RECURSIVE Sum(_)
Sum(outcomes) ==
  IF outcomes = <<>> THEN 0 ELSE outcomes[1] + Sum(Tail(outcomes))

\* roll_dice(num_rolls, dice) where the dice give OUTCOMES, one per roll.
roll_dice(num_rolls, outcomes) ==
  IF \E i \in 1..num_rolls : outcomes[i] = 1 THEN 0 ELSE Sum(outcomes)

RECURSIVE is_prime_loop(_, _)
is_prime_loop(n, k) ==
  IF k < n THEN IF n % k = 0 THEN FALSE ELSE is_prime_loop(n, k + 1) ELSE TRUE

is_prime(n) == IF n <= 1 THEN FALSE ELSE is_prime_loop(n, 2)

RECURSIVE next_prime_loop(_)
next_prime_loop(k) == IF is_prime(k) THEN k ELSE next_prime_loop(k + 1)

next_prime(n) == next_prime_loop(n + 1)

Max(x, y) == IF x >= y THEN x ELSE y

take_turn(num_rolls, opponent_score, outcomes) ==
  IF ~(num_rolls >= 0 /\ num_rolls <= 10 /\ opponent_score < 100)
  THEN [k |-> "AssertionError", v |-> 0]
  ELSE LET score == IF num_rolls = 0
                    THEN Max(opponent_score \div 10, opponent_score % 10) + 1
                    ELSE roll_dice(num_rolls, outcomes)
       IN [k |-> "ok", v |-> IF is_prime(score) THEN next_prime(score) ELSE score]

select_dice(score, opponent_score) ==
  IF (score + opponent_score) % 7 = 0 THEN four_sided ELSE six_sided

\* Python's // and % round toward minus infinity, as \div and % do.
split_integer(score) == <<score \div 10, score % 10>>

is_swap(score0, score1) ==
  LET s0 == IF score0 < 100 /\ score1 < 100 THEN score0
            ELSE IF score0 > 100 THEN score0 - 100 ELSE score0
      s1 == IF score0 < 100 /\ score1 < 100 THEN score1
            ELSE IF score0 > 100 THEN score1 ELSE score1 - 100
  IN /\ split_integer(s0)[1] = split_integer(s1)[2]
     /\ split_integer(s0)[2] = split_integer(s1)[1]

other(player) == 1 - player

Game(status, score0, score1, player, goal) ==
  [status |-> status, score0 |-> score0, score1 |-> score1,
   player |-> player, goal |-> goal]

\* Faulty variant: a turn that scores 0 gives the opponent nothing.
play_loop_no_piggy_back(g, num_rolls, outcomes) ==
  LET mine == IF g.player = 0 THEN g.score0 ELSE g.score1
      theirs == IF g.player = 0 THEN g.score1 ELSE g.score0
      turn == take_turn(num_rolls, theirs, outcomes)
      mine1 == mine + turn.v
      a == IF g.player = 0 THEN mine1 ELSE theirs
      b == IF g.player = 0 THEN theirs ELSE mine1
      score0 == IF is_swap(a, b) THEN b ELSE a
      score1 == IF is_swap(a, b) THEN a ELSE b
  IN IF turn.k # "ok" THEN [g EXCEPT !.status = turn.k]
     ELSE Game(IF score0 < g.goal /\ score1 < g.goal THEN "playing" ELSE "done",
               score0, score1, other(g.player), g.goal)

\* One pass through the body of play's while loop, then its test.
play_loop(g, num_rolls, outcomes) ==
  LET mine == IF g.player = 0 THEN g.score0 ELSE g.score1
      theirs == IF g.player = 0 THEN g.score1 ELSE g.score0
      turn == take_turn(num_rolls, theirs, outcomes)
      theirs1 == IF turn.v = 0 THEN theirs + num_rolls ELSE theirs
      mine1 == mine + turn.v
      a == IF g.player = 0 THEN mine1 ELSE theirs1
      b == IF g.player = 0 THEN theirs1 ELSE mine1
      score0 == IF is_swap(a, b) THEN b ELSE a
      score1 == IF is_swap(a, b) THEN a ELSE b
  IN IF turn.k # "ok" THEN [g EXCEPT !.status = turn.k]
     ELSE Game(IF score0 < g.goal /\ score1 < g.goal THEN "playing" ELSE "done",
               score0, score1, other(g.player), g.goal)

(***************************************************************************)
(* The session: create_global_frame and the read-eval-print loop.          *)
(***************************************************************************)
\* The global frame with the primitives the programs below use.
create_global_frame ==
  [parent |-> 0,
   bindings |-> (Sym("undefined") :> None)
                @@ (Sym("eval") :> PrimitiveProcedure("eval", TRUE))
                @@ (Sym("apply") :> PrimitiveProcedure("apply", TRUE))
                @@ (Sym("+") :> PrimitiveProcedure("+", FALSE))
                @@ (Sym("-") :> PrimitiveProcedure("-", FALSE))
                @@ (Sym("=") :> PrimitiveProcedure("=", FALSE))]

GlobalEnv == 1

\* What one top-level evaluation leaves behind for inspection.
Outcome(op, expression, r) ==
  [op |-> op, expr |-> expression, k |-> r.k, v |-> r.v, log |-> r.st.log,
   calls |-> r.st.calls, maxd |-> r.st.maxd, iters |-> r.st.iters,
   applied |-> r.st.applied]

\* An exception of the host: its class and args[0].
Exception(cls, msg) == [cls |-> cls, msg |-> msg]

\* The messages of the host's RuntimeError that contain the words
\* 'maximum recursion depth exceeded', and one that does not.
RecursionMessages ==
  {"maximum recursion depth exceeded",
   "maximum recursion depth exceeded in comparison"}

OtherRuntimeMessage == "generator already executing"

\* What the try statement of read_eval_print_loop does with an exception
\* raised in its body: where the loop stands afterwards and what was printed.
Handled(status, printed) == [status |-> status, printed |-> printed]

\* Faulty variant: an evaluator error ends the loop.
read_eval_print_loop_except_stop(err, interactive, startup) ==
  IF err.cls \in {"SchemeError", "SyntaxError", "ValueError", "RuntimeError"}
  THEN IF err.cls = "RuntimeError" /\ err.msg \notin RecursionMessages
       THEN Handled("raised", "")
       ELSE IF err.cls = "RuntimeError"
       THEN Handled("reading", "Error: maximum recursion depth exceeded")
       ELSE Handled("returned", "Error:")
  ELSE IF err.cls = "KeyboardInterrupt"
  THEN IF ~startup THEN Handled("raised", "")
       ELSE IF ~interactive THEN Handled("returned", "KeyboardInterrupt")
       ELSE Handled("reading", "KeyboardInterrupt")
  ELSE IF err.cls = "EOFError" THEN Handled("returned", "")
  ELSE Handled("raised", "")

\* Faulty variant: an interrupt is reported whatever startup is.
read_eval_print_loop_except_always(err, interactive, startup) ==
  IF err.cls \in {"SchemeError", "SyntaxError", "ValueError", "RuntimeError"}
  THEN IF err.cls = "RuntimeError" /\ err.msg \notin RecursionMessages
       THEN Handled("raised", "")
       ELSE IF err.cls = "RuntimeError"
       THEN Handled("reading", "Error: maximum recursion depth exceeded")
       ELSE Handled("reading", "Error:")
  ELSE IF err.cls = "KeyboardInterrupt"
  THEN IF ~interactive THEN Handled("returned", "KeyboardInterrupt")
       ELSE Handled("reading", "KeyboardInterrupt")
  ELSE IF err.cls = "EOFError" THEN Handled("returned", "")
  ELSE Handled("raised", "")

read_eval_print_loop_except(err, interactive, startup) ==
  IF err.cls \in {"SchemeError", "SyntaxError", "ValueError", "RuntimeError"}
  THEN IF err.cls = "RuntimeError" /\ err.msg \notin RecursionMessages
       THEN Handled("raised", "")
       ELSE IF err.cls = "RuntimeError"
       THEN Handled("reading", "Error: maximum recursion depth exceeded")
       ELSE Handled("reading", "Error:")
  ELSE IF err.cls = "KeyboardInterrupt"
  THEN IF ~startup THEN Handled("raised", "")
       ELSE IF ~interactive THEN Handled("returned", "KeyboardInterrupt")
       ELSE Handled("reading", "KeyboardInterrupt")
  ELSE IF err.cls = "EOFError" THEN Handled("returned", "")
  ELSE Handled("raised", "")

\* The loop after an evaluation that returned or raised.
AfterEval(r, interactive, startup) ==
  IF r.k = "ok"
  THEN Handled("reading", IF r.v = None THEN "" ELSE "result")
  ELSE read_eval_print_loop_except(Exception(r.k, r.v.msg), interactive, startup)

Loop(h, interactive, startup) ==
  [status |-> h.status, printed |-> h.printed,
   interactive |-> interactive, startup |-> startup]

Init ==
  /\ frames = <<create_global_frame>>
  /\ last = [op |-> "init"]
  /\ inputs = 0
  /\ loop = Loop(Handled("idle", ""), FALSE, FALSE)
  /\ game = Game("idle", 0, 0, 0, 0)

\* read_eval_print_loop(next_line, env, interactive, startup) is entered.
Start(interactive, startup) ==
  /\ loop.status = "idle" /\ game.status = "idle"
  /\ last.op = "init"
  /\ loop' = Loop(Handled("reading", ""), interactive, startup)
  /\ UNCHANGED <<frames, last, inputs, game>>

\* One turn of read_eval_print_loop: result = scheme_eval(expression, env).
ReadEvalPrint(expression) ==
  /\ loop.status = "reading"
  /\ expression \in ProgramsRead(loop.interactive, loop.startup)
  /\ inputs < MaxInputs
  /\ LET r == scheme_eval(expression, GlobalEnv, FALSE, 1, NewState(frames))
     IN /\ frames' = r.st.frames
        /\ last' = Outcome("eval", expression, r)
        /\ loop' = Loop(AfterEval(r, loop.interactive, loop.startup),
                        loop.interactive, loop.startup)
  /\ inputs' = inputs + 1
  /\ UNCHANGED game

\* What next_line and scheme_read can raise instead of giving an expression.
ReadExceptions ==
  {Exception("EOFError", ""), Exception("KeyboardInterrupt", ""),
   Exception("SyntaxError", "unexpected end of file"),
   Exception("ValueError", "invalid numeral"),
   Exception("RuntimeError", OtherRuntimeMessage)}

\* One turn of read_eval_print_loop in which reading raises err.
ReadRaises(err) ==
  /\ loop.status = "reading"
  /\ inputs < MaxInputs
  /\ last' = [op |-> "raise", err |-> err]
  /\ loop' = Loop(read_eval_print_loop_except(err, loop.interactive, loop.startup),
                  loop.interactive, loop.startup)
  /\ inputs' = inputs + 1
  /\ UNCHANGED <<frames, game>>

(***************************************************************************)
(* The Frame methods called directly, as make_child_frame's doctest does.  *)
(***************************************************************************)
ApiSymbols == {Sym("x")}

ApiValues == {Num(1), Num(2)}

\* Parameter lists that check_formals has passed: distinct symbols.
ApiFormals == {nil, List(<<Sym("x")>>), List(<<Sym("y"), Sym("x")>>)}

ApiVals ==
  {nil, List(<<Num(1)>>), List(<<Num(1), Num(2)>>), List(<<Num(2), Num(1), Num(2)>>)}

ApiOps == {"init", "define", "make_child_frame"}

\* F.define(symbol, value)
Define(F, symbol, value) ==
  /\ loop.status = "idle" /\ game.status = "idle"
  /\ last.op \in ApiOps
  /\ LET r == Frame_define(F, symbol, value, 1, NewState(frames))
     IN /\ frames' = r.st.frames
        /\ last' = [op |-> "define", frame |-> F, symbol |-> symbol, value |-> value]
  /\ UNCHANGED <<inputs, loop, game>>

\* F.make_child_frame(formals, vals)
MakeChildFrame(F, formals, vals) ==
  /\ loop.status = "idle" /\ game.status = "idle"
  /\ last.op \in ApiOps
  /\ Len(frames) < MaxFrames
  /\ LET r == Frame_make_child_frame(F, formals, vals, 1, NewState(frames))
     IN /\ frames' = r.st.frames
        /\ last' = [op |-> "make_child_frame", frame |-> F, formals |-> formals,
                    vals |-> vals, k |-> r.k,
                    v |-> IF r.k = "ok" THEN r.v ELSE 0, before |-> frames]
  /\ UNCHANGED <<inputs, loop, game>>

\* scheme_eval(expression, env) on one generated form in the global frame.
EvalForm(expression) ==
  /\ loop.status = "idle" /\ game.status = "idle"
  /\ last.op = "init"
  /\ LET r == scheme_eval(expression, GlobalEnv, FALSE, 1, NewState(frames))
     IN /\ frames' = r.st.frames
        /\ last' = Outcome("form", expression, r)
  /\ inputs' = inputs + 1
  /\ UNCHANGED <<loop, game>>

\* check_formals(formals)
CheckFormals(formals) ==
  /\ loop.status = "idle" /\ game.status = "idle"
  /\ last.op = "init"
  /\ last' = [op |-> "check_formals", formals |-> formals, k |-> check_formals(formals)]
  /\ UNCHANGED <<frames, inputs, loop, game>>

\* is_swap(score0, score1)
IsSwap(score0, score1) ==
  /\ loop.status = "idle" /\ game.status = "idle"
  /\ last.op = "init"
  /\ score0 < GOAL_SCORE \/ score1 < GOAL_SCORE
  /\ last' = [op |-> "is_swap", score0 |-> score0, score1 |-> score1,
              result |-> is_swap(score0, score1)]
  /\ UNCHANGED <<frames, inputs, loop, game>>

\* The goals played: small ones, the goal of the game and one above it.
Goals == (1..MaxGoal) \cup {GOAL_SCORE, GOAL_SCORE + 1}

\* Starting scores below the goal, no more than MaxGoal points away from it.
StartScores(goal) == Max(0, goal - MaxGoal)..(goal - 1)

\* play(strategy0, strategy1, score0, score1, goal) is entered.
Play(score0, score1, goal) ==
  /\ loop.status = "idle" /\ game.status = "idle"
  /\ last.op = "init"
  /\ score0 \in StartScores(goal) /\ score1 \in StartScores(goal)
  /\ game' = Game("playing", score0, score1, 0, goal)
  /\ UNCHANGED scheme

\* One turn of play: the strategy of the player whose turn it is asks for
\* num_rolls dice and the selected dice give outcomes.
Turn(num_rolls, outcomes) ==
  /\ game.status = "playing"
  /\ Len(outcomes) = num_rolls
  /\ \A i \in 1..num_rolls :
       outcomes[i] \in IF game.player = 0
                       THEN select_dice(game.score0, game.score1)
                       ELSE select_dice(game.score1, game.score0)
  /\ game' = play_loop(game, num_rolls, outcomes)
  /\ UNCHANGED scheme

\* Nothing has been called yet.
Fresh == last.op = "init" /\ loop.status = "idle" /\ game.status = "idle"

Next ==
  \/ /\ Fresh
     /\ \E score0, score1 \in 0..MaxScore : IsSwap(score0, score1)
  \/ /\ Fresh
     /\ \E goal \in Goals : \E score0, score1 \in StartScores(goal) :
          Play(score0, score1, goal)
  \/ /\ game.status = "playing"
     /\ \E num_rolls \in 0..MaxRolls : \E outcomes \in [1..num_rolls -> six_sided] :
          Turn(num_rolls, outcomes)
  \/ \E interactive, startup \in BOOLEAN : Start(interactive, startup)
  \/ /\ loop.status = "reading"
     /\ \E expression \in SessionPrograms \cup FilePrograms : ReadEvalPrint(expression)
  \/ \E err \in ReadExceptions : ReadRaises(err)
  \/ /\ Fresh
     /\ \E expression \in CondForms \cup AndForms \cup MalformedForms \cup LetForms
                          \cup ApplyForms :
          EvalForm(expression)
  \/ /\ Fresh
     /\ \E formals \in FormalsLists : CheckFormals(formals)
  \/ /\ last.op \in ApiOps /\ game.status = "idle"
     /\ \E F \in 1..Len(frames), symbol \in ApiSymbols, value \in ApiValues :
          Define(F, symbol, value)
  \/ /\ last.op \in ApiOps /\ game.status = "idle"
     /\ \E F \in 1..Len(frames), formals \in ApiFormals, vals \in ApiVals :
          MakeChildFrame(F, formals, vals)

Spec == Init /\ [][Next]_vars

\* play's while loop goes on to its next turn while its test holds.
TurnStep ==
  \E num_rolls \in 0..MaxRolls : \E outcomes \in [1..num_rolls -> six_sided] :
    Turn(num_rolls, outcomes)

FairSpec == Spec /\ WF_game(TurnStep)

(***************************************************************************)
(* Properties.                                                             *)
(***************************************************************************)
\* The elements of a proper Scheme list, in order.
RECURSIVE Elems(_)
Elems(x) == IF x.t = "Pair" THEN <<x.first>> \o Elems(x.second) ELSE <<>>

Global == frames[GlobalEnv].bindings

BoundTo(name, types) == Sym(name) \in DOMAIN Global /\ Global[Sym(name)].t \in types

\* The deepest native activation EXPRESSION reaches when evaluated now.
DepthOf(expression) ==
  scheme_eval(expression, GlobalEnv, FALSE, 1, NewState(frames)).st.maxd

\* C1: with count bound to a user-defined procedure (Lambda or Mu) whose
\* recursive call is in tail position, (count n) returns for every n >= 1 and
\* reaches the same maximum native depth as (count 1), whatever n is.
C1_TailDepthIndependentOfN ==
  \A n \in 1..MaxCount :
    (last.op = "eval" /\ last.expr = CallCount(n)
       /\ BoundTo("count", {"LambdaProcedure", "MuProcedure"}))
    => (last.k = "ok" /\ last.maxd = DepthOf(CallCount(1)))

\* The call frames built for procedures of the given type by the last evaluation.
CallsOf(type) ==
  {last.calls[i] : i \in {j \in 1..Len(last.calls) : last.calls[j].proc.t = type}}

Evaluated == last.op \in {"eval", "form"}

\* C2: every call frame of a LambdaProcedure is a child of the frame the
\* procedure captured at creation, wherever the call is made; so getx, made
\* in the global frame and called from a frame binding x to 2, sees the
\* global x (or none), and a closure made where k is 7 yields 7 where k is 9.
C2_LexicalScoping ==
  Evaluated =>
    /\ \A c \in CallsOf("LambdaProcedure") : frames[c.frame].parent = c.proc.env
    /\ (last.expr \in {CallGetxFrom(2), CallGetxOperandFrom(2)}
          /\ BoundTo("getx", {"LambdaProcedure"}))
       => IF Sym("x") \in DOMAIN Global
          THEN last.k = "ok" /\ last.v = Global[Sym("x")]
          ELSE last.k = "SchemeError" /\ last.v.arg = Sym("x")
    /\ last.expr = ClosureFromA => (last.k = "ok" /\ last.v = Num(7))

\* getx, a lambda of the global frame, was called from another frame in which
\* x is 2 and returned the global x.
C2_Witness ==
  /\ last.op = "eval" /\ last.expr = CallGetxFrom(2)
  /\ last.k = "ok" /\ last.v = Num(1)
  /\ \E c \in CallsOf("LambdaProcedure") :
       /\ c.proc = Global[Sym("getx")]
       /\ c.env # c.proc.env
       /\ frames[c.env].bindings[Sym("x")] = Num(2)

\* C3: every call frame of a MuProcedure is a child of the frame the call is
\* evaluated in, also when the call is reached through a tail-position
\* suspension; so getx sees the caller's x, and called from two call sites
\* that bind x to 5 and to 3 the same mu returns 5 and 3.
C3_DynamicScoping ==
  Evaluated =>
    /\ \A c \in CallsOf("MuProcedure") : frames[c.frame].parent = c.env
    /\ (last.expr \in {CallGetxFrom(2), CallGetxOperandFrom(2)}
          /\ BoundTo("getx", {"MuProcedure"}))
       => (last.k = "ok" /\ last.v = Num(2))
    /\ (last.expr = TwoCallSites /\ BoundTo("getx", {"MuProcedure"}))
       => (last.k = "ok" /\ last.v = Num(2))

\* One mu was called from two frames, reached each time through a suspension,
\* and returned 5 at one call site and 3 at the other.
C3_Witness ==
  /\ last.op = "eval" /\ last.expr = TwoCallSites
  /\ last.k = "ok" /\ last.v = Num(2)
  /\ \E c1, c2 \in CallsOf("MuProcedure") :
       /\ c1.proc = c2.proc /\ c1.env # c2.env
       /\ frames[c1.env].bindings[Sym("x")] = Num(5)
       /\ frames[c2.env].bindings[Sym("x")] = Num(3)
  /\ \E i \in 1..Len(last.log) :
       last.log[i].expr = List(<<Sym("getx")>>) /\ last.log[i].tail

\* The frames from D up to the global frame.
RECURSIVE Chain(_)
Chain(D) == IF frames[D].parent = 0 THEN <<D>> ELSE <<D>> \o Chain(frames[D].parent)

\* The frames from D up to, and without, F; F is D or an ancestor of D.
Below(D, F) == {Chain(D)[i] : i \in {j \in 1..Len(Chain(D)) : \A k \in 1..j : Chain(D)[k] # F}}

IsDescendantOrSelf(D, F) == \E i \in 1..Len(Chain(D)) : Chain(D)[i] = F

Defines(D, symbol) == symbol \in DOMAIN frames[D].bindings

LookupGives(D, symbol, value) ==
  LET r == Frame_lookup(D, symbol, 1, NewState(frames))
  IN r.k = "ok" /\ r.v = value

\* C4 as stated: after F.define(s, v), lookup(s) from F or from any descendant
\* of F that does not itself define s returns v.
C4_LookupFromAnyDescendant ==
  last.op = "define" =>
    \A D \in 1..Len(frames) :
      (IsDescendantOrSelf(D, last.frame) /\ (D = last.frame \/ ~Defines(D, last.symbol)))
      => LookupGives(D, last.symbol, last.value)

\* C4 amended: after F.define(s, v), lookup(s) from F, or from any descendant D
\* of F such that no frame from D up to (and without) F defines s, returns v.
C4_LookupFromUnshadowedDescendant ==
  last.op = "define" =>
    \A D \in 1..Len(frames) :
      (IsDescendantOrSelf(D, last.frame)
         /\ \A M \in Below(D, last.frame) : ~Defines(M, last.symbol))
      => LookupGives(D, last.symbol, last.value)

\* x was just defined in a frame that has a grandchild, neither the grandchild
\* nor the frame between them defines x, and the grandchild's lookup finds it.
C4_Witness ==
  /\ last.op = "define"
  /\ \E D \in 1..Len(frames) :
       /\ Len(Chain(D)) >= 3 /\ Chain(D)[3] = last.frame
       /\ \A M \in Below(D, last.frame) : ~Defines(M, last.symbol)
       /\ LookupGives(D, last.symbol, last.value)

\* The binding expressions of (let ((x 5) (y x)) y).
LetXYBindingExprs == {Num(5), Sym("x")}

\* The log entries of the last evaluation from the i-th on that evaluate a
\* binding expression of LetXY.
BindingEvals(i) ==
  {last.log[j] : j \in {n \in i..Len(last.log) : last.log[n].expr \in LetXYBindingExprs}}

\* C5: every binding expression of a let is evaluated in the frame the let
\* form itself is evaluated in, before the child frame exists, and sees no
\* name bound by the same let: (let ((x 5) (y x)) y) fails with unknown
\* identifier x where x is unbound, and yields the outer x where x is bound
\* outside (the global x at top level, the argument x inside a call).
C5_LetSimultaneous ==
  /\ (last.op = "eval" /\ last.expr = LetXY) =>
       /\ IF Sym("x") \in DOMAIN Global
          THEN last.k = "ok" /\ last.v = Global[Sym("x")]
          ELSE /\ last.k = "SchemeError"
               /\ last.v = [msg |-> "unknown identifier: {0}", arg |-> Sym("x")]
       /\ \A e \in BindingEvals(2) :
            e.env = last.log[1].env /\ e.nframes = last.log[1].nframes
  /\ (last.op = "eval" /\ last.expr = LetXYInCall) =>
       /\ last.k = "ok" /\ last.v = Num(7)
       /\ \E i \in 1..Len(last.log) :
            /\ last.log[i].expr = LetXY
            /\ BindingEvals(i + 1) # {}
            /\ \A e \in BindingEvals(i + 1) :
                 e.env = last.log[i].env /\ e.nframes = last.log[i].nframes

\* (let ((x 5) (y x)) y) ran inside a call that binds x to 7: both binding
\* expressions were evaluated in the call's frame and y received 7.
C5_Witness ==
  /\ last.op = "eval" /\ last.expr = LetXYInCall
  /\ last.k = "ok" /\ last.v = Num(7)
  /\ Cardinality({e.expr : e \in BindingEvals(2)}) = 2
  /\ \E c \in CallsOf("LambdaProcedure") : \A e \in BindingEvals(2) : e.env = c.frame

\* Expressions evaluated only once a call frame has been made: the body of the
\* procedures called with the wrong number of arguments, and what it evaluates.
ArityBodyExprs == {ArityBody, Sym("a")}

\* C6: F.make_child_frame(formals, vals) raises SchemeError when the two lists
\* differ in length, for too few and for too many values, and leaves the heap
\* as it was; with equal lengths it returns a new frame whose parent is F and
\* which binds the i-th formal to the i-th value, and changes no other frame.
\* So a Lambda or Mu called with the wrong number of arguments raises
\* SchemeError before any body expression is evaluated.
C6_MakeChildFrame ==
  /\ last.op = "make_child_frame" =>
       LET fs == Elems(last.formals)
           vs == Elems(last.vals)
       IN IF Len(fs) # Len(vs)
          THEN last.k = "SchemeError" /\ frames = last.before
          ELSE /\ last.k = "ok"
               /\ last.v = Len(last.before) + 1
               /\ Len(frames) = Len(last.before) + 1
               /\ frames[last.v].parent = last.frame
               /\ DOMAIN frames[last.v].bindings = {fs[i] : i \in 1..Len(fs)}
               /\ \A i \in 1..Len(fs) : frames[last.v].bindings[fs[i]] = vs[i]
               /\ \A j \in 1..Len(last.before) : frames[j] = last.before[j]
  /\ (last.op = "eval" /\ last.expr \in {TooManyArgs, TooFewArgs, TooFewArgsMu}) =>
       /\ last.k = "SchemeError"
       /\ last.calls = <<>>
       /\ \A i \in 1..Len(last.log) : last.log[i].expr \notin ArityBodyExprs

\* A child of a frame other than the global one, which has bindings of its
\* own, was made with two formals bound in order.
C6_Witness ==
  /\ last.op = "make_child_frame" /\ last.k = "ok"
  /\ last.frame # GlobalEnv
  /\ last.formals = List(<<Sym("y"), Sym("x")>>)
  /\ frames[last.v].bindings[Sym("y")] = Num(1)
  /\ frames[last.v].bindings[Sym("x")] = Num(2)
  /\ frames[last.frame].bindings # <<>>

\* C7: check_formals accepts a parameter list if and only if every element is
\* a symbol and no symbol occurs twice, and rejects every other list (one with
\* a number, a nested list of any length or a repeated symbol) with SchemeError.
C7_CheckFormalsIff ==
  last.op = "check_formals" =>
    LET fs == Elems(last.formals)
        valid == /\ \A i \in 1..Len(fs) : fs[i].t = "sym"
                 /\ \A i, j \in 1..Len(fs) : fs[i] = fs[j] => i = j
    IN IF valid THEN last.k = "ok" ELSE last.k = "SchemeError"

\* What the tests and bodies of the generated cond forms evaluate to.
TestValue(test) == IF test.t = "Pair" THEN Bool(TRUE) ELSE test

BodyValue(body) == IF body[Len(body)].t = "Pair" THEN Num(2) ELSE body[Len(body)]

IsElse(clause) == clause.first = Sym("else")

Wins(clause) == IsElse(clause) \/ scheme_true(TestValue(clause.first))

CondForm == last.op = "form" /\ last.expr \in CondForms

Clauses == Elems(last.expr.second)

\* The number of the first clause that is an else clause or whose test is
\* truthy; 0 when there is none.
Winner ==
  IF \E i \in 1..Len(Clauses) : Wins(Clauses[i])
  THEN CHOOSE i \in 1..Len(Clauses) :
         Wins(Clauses[i]) /\ \A j \in 1..(i - 1) : ~Wins(Clauses[j])
  ELSE 0

MisplacedElse == \E i \in 1..(Len(Clauses) - 1) : IsElse(Clauses[i])

ElseMustBeLast ==
  last.k = "SchemeError" /\ last.v = [msg |-> "else must be last", arg |-> None]

\* The expressions among S that the last evaluation evaluated, in order.
EvaluatedAmong(S) ==
  LET picked == SelectSeq(last.log, LAMBDA e : e.expr \in S)
  IN [i \in 1..Len(picked) |-> picked[i].expr]

\* C8 as stated: a cond with an else clause before the last clause signals
\* "else must be last"; a cond whose else clause is last takes it whenever no
\* earlier test was truthy.
C8_ElseBeforeLastAlwaysSignals ==
  CondForm =>
    /\ MisplacedElse => ElseMustBeLast
    /\ (~MisplacedElse /\ Winner # 0 /\ IsElse(Clauses[Winner])
          /\ Clauses[Winner].second # nil)
       => (last.k = "ok" /\ last.v = BodyValue(Elems(Clauses[Winner].second)))

\* C8 amended: a cond signals "else must be last" when the first clause that is
\* an else clause or has a truthy test is an else clause before the last
\* clause; when an earlier clause's test is truthy that clause is taken and a
\* misplaced else after it is not reported.  A cond whose else clause is last
\* takes it whenever no earlier test was truthy: no test is evaluated for it
\* and its body is evaluated as a begin form, which with an empty body is the
\* error of an empty begin.
C8_ElseBeforeLastSignalsWhenReached ==
  CondForm =>
    LET w == Winner
        n == Len(Clauses)
    IN /\ (w # 0 /\ IsElse(Clauses[w]) /\ w < n) => ElseMustBeLast
       /\ (w # 0 /\ ~IsElse(Clauses[w])) => last.k = "ok"
       /\ (w # 0 /\ IsElse(Clauses[w]) /\ w = n) =>
            /\ EvaluatedAmong(CondTests) = [i \in 1..(n - 1) |-> Clauses[i].first]
            /\ IF Clauses[w].second # nil
               THEN last.k = "ok" /\ last.v = BodyValue(Elems(Clauses[w].second))
               ELSE /\ last.k = "SchemeError"
                    /\ last.v.msg = "too few operands in form"

\* An else clause stands first of two clauses, nothing before it was truthy,
\* and the cond signalled "else must be last".
C8_Witness ==
  /\ CondForm /\ Len(Clauses) = 2
  /\ IsElse(Clauses[1]) /\ ~IsElse(Clauses[2])
  /\ ElseMustBeLast

\* C9: in a cond whose else clause, if any, is last, the first clause whose
\* test is truthy or whose head is else wins and no later test is evaluated;
\* with a body the result is the value of the body's last expression, with no
\* body (test clause and else clause alike) it is the test's own value, true
\* for else; with no winning clause the result is no value.
C9_CondWinner ==
  (CondForm /\ ~MisplacedElse) =>
    LET w == Winner
        n == Len(Clauses)
        tested == IF w = 0 THEN n ELSE IF IsElse(Clauses[w]) THEN w - 1 ELSE w
    IN /\ last.k = "ok"
       /\ EvaluatedAmong(CondTests) = [i \in 1..tested |-> Clauses[i].first]
       /\ last.v = IF w = 0 THEN None
                   ELSE IF Clauses[w].second # nil
                   THEN BodyValue(Elems(Clauses[w].second))
                   ELSE IF IsElse(Clauses[w]) THEN Bool(TRUE)
                   ELSE TestValue(Clauses[w].first)

\* What the operands of the generated and forms evaluate to.
OperandValue(o) ==
  IF o = List(<<Sym("-"), Num(4), Num(4)>>) THEN Num(0)
  ELSE IF o = List(<<Sym("="), Num(5), Num(6)>>) THEN Bool(FALSE)
  ELSE o

AndForm == last.op = "form" /\ last.expr \in AndForms

Operands == Elems(last.expr.second)

\* The number of the operand at which and stops: the first operand before the
\* last whose value is false, else the last operand.
StopsAt ==
  IF \E j \in 1..(Len(Operands) - 1) : scheme_false(OperandValue(Operands[j]))
  THEN CHOOSE j \in 1..(Len(Operands) - 1) :
         /\ scheme_false(OperandValue(Operands[j]))
         /\ \A i \in 1..(j - 1) : ~scheme_false(OperandValue(Operands[i]))
  ELSE Len(Operands)

\* The evaluations of operands that the last and form made, in order.
OperandEvals == SelectSeq(last.log, LAMBDA e : e.expr \in AndOperands)

\* C10: and evaluates its operands left to right and stops at the first operand
\* whose value is falsy, returning that value without evaluating any later
\* operand; with no operands it returns true; if every operand before the last
\* is truthy the result is the value of the last operand, which is evaluated in
\* tail position.
C10_AndShortCircuit ==
  AndForm =>
    /\ last.k = "ok"
    /\ IF Operands = <<>>
       THEN last.v = Bool(TRUE) /\ OperandEvals = <<>>
       ELSE /\ last.v = OperandValue(Operands[StopsAt])
            /\ Len(OperandEvals) = StopsAt
            /\ \A j \in 1..StopsAt :
                 /\ OperandEvals[j].expr = Operands[j]
                 /\ OperandEvals[j].env = GlobalEnv
                 /\ OperandEvals[j].tail = (j = Len(Operands))

\* (and 1 #f 3) gave the false value and 3 was never evaluated.
C10_Witness ==
  /\ AndForm
  /\ Operands = <<Num(1), Bool(FALSE), Num(3)>>
  /\ last.k = "ok" /\ last.v = Bool(FALSE)
  /\ \A i \in 1..Len(last.log) : last.log[i].expr # Num(3)

\* C11: every evaluation of an expression built from pairs, nil, symbols and
\* numbers, malformed special forms included, returns a value or fails with
\* SchemeError, and never with another kind of error.
C11_OnlySchemeError ==
  Evaluated => last.k \in {"ok", "SchemeError"}

\* The exception that ended the last turn of the loop, if one did.
Turned == loop.status # "idle" /\ last.op \in {"eval", "raise"}

LastError ==
  IF last.op = "raise" THEN last.err
  ELSE IF last.op = "eval" /\ last.k # "ok" THEN Exception(last.k, last.v.msg)
  ELSE Exception("none", "")

RecoverableError(e) ==
  \/ e.cls \in {"SchemeError", "SyntaxError", "ValueError"}
  \/ e.cls = "RuntimeError" /\ e.msg \in RecursionMessages

Interrupted == Turned /\ last.op = "raise" /\ last.err.cls = "KeyboardInterrupt"

\* C13 as stated: an interrupt propagates out of a loop that is not
\* interactive, and is reported by an interactive loop, which continues.
C13_InterruptFatalUnlessInteractive ==
  Interrupted =>
    IF loop.interactive
    THEN loop.status = "reading" /\ loop.printed = "KeyboardInterrupt"
    ELSE loop.status = "raised"

\* C13 amended: an interrupt propagates out of a loop started with startup
\* false, whatever interactive is; a loop started with startup true reports it
\* and then continues with the next input if interactive is true and returns,
\* without propagating it, if interactive is false.
C13_InterruptByStartupThenInteractive ==
  Interrupted =>
    IF ~loop.startup
    THEN loop.status = "raised" /\ loop.printed = ""
    ELSE /\ loop.printed = "KeyboardInterrupt"
         /\ loop.status = IF loop.interactive THEN "reading" ELSE "returned"

\* The loop of a file run without -load (startup true, interactive false) was
\* interrupted after a turn that evaluated an expression, and returned.
C13_Witness ==
  /\ Interrupted
  /\ loop.startup /\ ~loop.interactive
  /\ loop.status = "returned"
  /\ inputs >= 2

\* The binding expressions of let form LetForm(exprs) that the log shows to
\* have been evaluated, in the order of their evaluation.
LetEvals(exprs) ==
  LET evals == SelectSeq(last.log, LAMBDA e : e.expr \in LetExprs)
  IN [i \in 1..Len(evals) |-> evals[i].expr]

\* The value of t after exprs[1..i] were evaluated from left to right; 0 when
\* t is not bound yet.
RECURSIVE LetT(_, _)
LetT(exprs, i) ==
  IF i = 0 THEN 0
  ELSE IF exprs[i] = ReadT THEN LetT(exprs, i - 1)
  ELSE IF exprs[i] = SetT(1) THEN 1 ELSE 2

\* The value of the i-th binding expression in an evaluation from left to right.
LetValue(exprs, i) == LetT(exprs, i)

\* The first binding expression that fails in an evaluation from left to
\* right (t is read before it is bound); 0 when none does.
LetFails(exprs) ==
  IF \E i \in 1..Len(exprs) : LetT(exprs, i) = 0
  THEN CHOOSE i \in 1..Len(exprs) :
         LetT(exprs, i) = 0 /\ \A j \in 1..(i - 1) : LetT(exprs, j) # 0
  ELSE 0

\* C17: in a let form the binding expressions are evaluated in left-to-right
\* textual order, up to the first that fails, and the child frame binds the
\* i-th name to the value of the i-th binding expression for every i.
C17_LetLeftToRight ==
  \A exprs \in SeqsUpTo(LetExprs, MaxBindings) :
    (last.op = "form" /\ last.expr = LetForm(exprs)) =>
      IF LetFails(exprs) = 0
      THEN /\ last.k = "ok"
           /\ LetEvals(exprs) = exprs
           /\ Len(frames) = 2
           /\ frames[2].parent = GlobalEnv
           /\ DOMAIN frames[2].bindings = {Sym(LetNames[i]) : i \in 1..Len(exprs)}
           /\ \A i \in 1..Len(exprs) :
                frames[2].bindings[Sym(LetNames[i])] = Num(LetValue(exprs, i))
      ELSE /\ last.k = "SchemeError"
           /\ LetEvals(exprs) = SubSeq(exprs, 1, LetFails(exprs))
           /\ Len(frames) = 1

\* A let of three bindings whose values differ and depend on the order: the
\* third reads the t that the second has set after the first.
C17_Witness ==
  /\ last.op = "form" /\ last.expr = LetForm(<<SetT(1), SetT(2), ReadT>>)
  /\ last.k = "ok"
  /\ frames[2].bindings[Sym("a")] = Num(1)
  /\ frames[2].bindings[Sym("c")] = Num(2)

\* The frame n parents above frame F; 0 (None) above the global frame.
RECURSIVE Ancestor(_, _)
Ancestor(F, n) ==
  IF n = 0 THEN F
  ELSE IF Ancestor(F, n - 1) = 0 THEN 0
  ELSE frames[Ancestor(F, n - 1)].parent

\* The symbols bound in frame F itself.
Bound(fs, F) == DOMAIN fs[F].bindings

\* C16: over any sequence of evaluations and of calls of define and
\* make_child_frame, the parent chain of every frame is acyclic and ends at
\* the global frame, a frame's parent never changes, and the set of symbols
\* bound in a frame only grows; define adds or overwrites one binding in its
\* own frame and changes nothing else there or in any other frame.
C16_FrameStructure ==
  /\ [](/\ frames[GlobalEnv].parent = 0
        /\ \A F \in 1..Len(frames) :
             \E n \in 0..(Len(frames) - 1) :
               Ancestor(F, n) = GlobalEnv /\ Ancestor(F, n + 1) = 0)
  /\ [][/\ Len(frames') >= Len(frames)
        /\ \A F \in 1..Len(frames) :
             /\ frames'[F].parent = frames[F].parent
             /\ Bound(frames, F) \subseteq Bound(frames', F)
        /\ last'.op = "define" =>
             /\ Len(frames') = Len(frames)
             /\ \A F \in 1..Len(frames) : F # last'.frame => frames'[F] = frames[F]
             /\ Bound(frames', last'.frame) = Bound(frames, last'.frame) \cup {last'.symbol}
             /\ frames'[last'.frame].bindings[last'.symbol] = last'.value
             /\ \A s \in Bound(frames, last'.frame) \ {last'.symbol} :
                  frames'[last'.frame].bindings[s] = frames[last'.frame].bindings[s]]_vars

\* define has overwritten x in a frame two levels below the global frame;
\* y stays bound there and the frame's parent binds x to another value.
C16_Witness ==
  /\ last.op = "define" /\ Len(frames) = 3
  /\ last.frame = 3 /\ frames[3].parent = 2 /\ frames[2].parent = GlobalEnv
  /\ Sym("y") \in Bound(frames, 3)
  /\ Sym("x") \in Bound(frames, 2)
  /\ frames[3].bindings[Sym("x")] = last.value
  /\ frames[2].bindings[Sym("x")] # last.value

\* The values of a Scheme list of arguments.
Arguments(i) == {python_args(last.applied[i])[j] :
                   j \in 1..Len(python_args(last.applied[i]))}

\* C15: a suspension (Evaluate) never escapes the trampoline: no value that
\* scheme_eval returns to the read-eval-print loop or to a caller evaluating
\* a single form is an Evaluate, no binding of any frame is one and no
\* argument given to a procedure is one; the calls through the primitives
\* apply and eval, whose scheme_apply returns the unfinished result of a
\* procedure body, have the finished values.
C15_NoSuspensionEscapes ==
  /\ \A F \in 1..Len(frames) : \A s \in DOMAIN frames[F].bindings :
       frames[F].bindings[s].t # "Evaluate"
  /\ Evaluated =>
       /\ last.k = "ok" => last.v.t # "Evaluate"
       /\ \A i \in 1..Len(last.applied) : \A a \in Arguments(i) : a.t # "Evaluate"
       /\ \A av \in ApplyValues :
            last.expr = av[1] => (last.k = "ok" /\ last.v = av[2])

\* (define r (apply (lambda (a) (+ a 1)) (quote (1)))) was evaluated: apply
\* was given the procedure and the list (1), the procedure was given 1, and r
\* is bound to 2.
C15_Witness ==
  /\ last.op = "form" /\ last.expr = DefineApplied /\ last.k = "ok"
  /\ Len(last.applied) >= 2
  /\ Sym("r") \in DOMAIN Global /\ Global[Sym("r")] = Num(2)

\* The tens and ones digits of the last two decimal digits of a score.
TensDigit(score) == (score % 100) \div 10

OnesDigit(score) == score % 10

\* C14: is_swap(score0, score1) is true exactly when the last two decimal
\* digits of score0 are those of score1 reversed, for all scores that play
\* can reach, a score of 100 and scores above 100 included.
C14_IsSwapReversedDigits ==
  last.op = "is_swap" =>
    (last.result <=> /\ TensDigit(last.score0) = OnesDigit(last.score1)
                     /\ OnesDigit(last.score0) = TensDigit(last.score1))

Playing == game.status = "playing"

Total(g) == g.score0 + g.score1

ReachedGoal(g) == g.score0 >= g.goal \/ g.score1 >= g.goal

\* C18 as stated, in what a finite run can refute: from any starting scores
\* below any goal, play's loop ends only with a score at or above the goal,
\* every turn adds at least 1 to score0 + score1, and the players alternate,
\* player 0 first.
C18_PlayEndsAtGoal ==
  /\ [](/\ game.status \in {"idle", "playing", "done"}
        /\ game.status = "done" => ReachedGoal(game))
  /\ [][Playing => /\ Total(game') >= Total(game) + 1
                   /\ game'.player = 1 - game.player]_game
  /\ [][(game.status = "idle" /\ game'.status = "playing") => game'.player = 0]_game

\* What play does guarantee, for a goal of at most GOAL_SCORE, under weak
\* fairness of its loop (FairSpec): play always terminates: every turn
\* adds at least 1 to score0 + score1, so from any starting scores below the
\* goal the loop ends after finitely many turns with a score at or above the
\* goal, and the players alternate, player 0 first.
C18_PlayTerminatesUpToGoal100 ==
  /\ [](game.goal <= GOAL_SCORE =>
          /\ game.status \in {"idle", "playing", "done"}
          /\ game.status = "done" => ReachedGoal(game))
  /\ [][(Playing /\ game.goal <= GOAL_SCORE)
          => /\ Total(game') >= Total(game) + 1
             /\ game'.player = 1 - game.player]_game
  /\ [][(game.status = "idle" /\ game'.status = "playing") => game'.player = 0]_game
  /\ (Playing /\ game.goal <= GOAL_SCORE) ~> (game.status = "done" /\ ReachedGoal(game))

\* A game to 100 ended after a turn of player 0 (player 1 would be next), with
\* one score at 100 or more and the other still below.
C18_Witness ==
  /\ game.status = "done" /\ game.goal = GOAL_SCORE
  /\ game.player = 1
  /\ ReachedGoal(game)
  /\ game.score0 < GOAL_SCORE \/ game.score1 < GOAL_SCORE

====
